---- MODULE Spec2Model ----
(***************************************************************************)
(* A model of the Uzid identifier generator (src/src/index.ts).            *)
(*                                                                         *)
(* A JavaScript string is a sequence of one-character strings, so that it  *)
(* can be indexed, sliced and compared code unit by code unit.  A value    *)
(* that may be undefined is a sequence of at most one element: << >> is    *)
(* undefined and <<v>> is the value v.  A JavaScript number that need not  *)
(* be an integer is a record [t, w, f]: t is its typeof, w its floor and f *)
(* its fractional part in tenths.                                          *)
(***************************************************************************)
EXTENDS Integers, Sequences, FiniteSets, TLC

VARIABLES
    g,      \* the Uzid instance the caller holds, NoGen when there is none
    other,  \* a second Uzid instance, NoGen when there is none
    now,    \* Date.now(), in milliseconds
    err,    \* the message of the Error the last call threw, NoError if none
    call,   \* the last call made: [op, options, count]
    ret,    \* what the last call returned: [kind, str, bool, array]
    held,   \* the identifier the caller kept from the last generate(): [id, by, ts]
    ids,    \* multiple(): the Set `ids`, in insertion order
    pc,     \* multiple(): "idle", "loop" (inside the while loop) or "done"
    called, \* multiple(): whether the running call has called single()
    conv    \* the radix converter under test: [stage, num, str, back]

vars == <<g, other, now, err, call, ret, held, ids, pc, called, conv>>

----------------------------------------------------------------------------
(* Bounds of the model *)

\* the longest random suffix the model generates
MaxSuffixLen == 1
\* the longest candidate string handed to verify()
MaxCandLen == 3
\* the largest count handed to multiple()
MaxCount == 3
\* the largest number the radix converter is run on (62^2 = 3844 has 3 digits)
MaxNum == 3850

\* the values Date.now() takes: 35 -> 36 carries in base 36 and steps from
\* "z" to "A" in base 62; 1000 is the first millisecond of second 1.  Every
\* timestamp has at most two digits, which keeps the numbers verify() decodes
\* from the identifiers of another instance below 2^31
ClockValues == {11, 35, 36, 1000}

\* the outcomes of Math.random(), as <<numerator, denominator>> in [0, 1)
MathRandom == {<<0, 1>>, <<99, 100>>}

----------------------------------------------------------------------------
(* Characters and strings *)

Digits == <<"0", "1", "2", "3", "4", "5", "6", "7", "8", "9">>

Lower == <<"a", "b", "c", "d", "e", "f", "g", "h", "i", "j", "k", "l", "m",
           "n", "o", "p", "q", "r", "s", "t", "u", "v", "w", "x", "y", "z">>

Upper == <<"A", "B", "C", "D", "E", "F", "G", "H", "I", "J", "K", "L", "M",
           "N", "O", "P", "Q", "R", "S", "T", "U", "V", "W", "X", "Y", "Z">>

Range(s) == {s[i] : i \in 1..Len(s)}

\* String.prototype.indexOf for one character: 0-based, -1 when absent
IndexOf(s, c) ==
    IF c \in Range(s) THEN (CHOOSE i \in 1..Len(s) : s[i] = c /\ \A j \in 1..(i - 1) : s[j] # c) - 1
    ELSE -1

\* the characters of the model: the letters and digits, and three others
Characters == Range(Digits) \cup Range(Upper) \cup Range(Lower) \cup {"!", "-", "_"}

\* the UTF-16 code unit of each character, as a table
CodeUnits ==
    [c \in Characters |->
        IF c \in Range(Digits) THEN 48 + IndexOf(Digits, c)
        ELSE IF c \in Range(Upper) THEN 65 + IndexOf(Upper, c)
        ELSE IF c \in Range(Lower) THEN 97 + IndexOf(Lower, c)
        ELSE IF c = "!" THEN 33
        ELSE IF c = "-" THEN 45
        ELSE 95] \* "_"

\* the UTF-16 code unit of a character
CodeUnit(c) == CodeUnits[c]

Min(a, b) == IF a < b THEN a ELSE b
Max(a, b) == IF a > b THEN a ELSE b

\* the < of two strings: by code units, a proper prefix being smaller
StrLess(a, b) ==
    \E k \in 1..(Min(Len(a), Len(b)) + 1) :
        /\ \A j \in 1..(k - 1) : a[j] = b[j]
        /\ \/ k = Len(a) + 1 /\ k <= Len(b)
           \/ k <= Len(a) /\ k <= Len(b) /\ CodeUnit(a[k]) < CodeUnit(b[k])

StrLeq(a, b) == a = b \/ StrLess(a, b)

\* String.prototype.startsWith
StartsWith(s, p) == Len(p) <= Len(s) /\ SubSeq(s, 1, Len(p)) = p

\* String.prototype.slice(start, end): a negative index counts from the end
Slice(s, start, end) ==
    LET from == IF start < 0 THEN Max(Len(s) + start, 0) ELSE Min(start, Len(s))
        to == IF end < 0 THEN Max(Len(s) + end, 0) ELSE Min(end, Len(s))
    IN SubSeq(s, from + 1, to)

\* String.prototype.slice(start)
SliceFrom(s, start) == Slice(s, start, Len(s))

Undefined == << >>
Some(v) == <<v>>

\* a number: typeof "number", floor w, fraction f tenths
Num(w) == [t |-> "number", w |-> w, f |-> 0]
NumberIsInteger(x) == x.t = "number" /\ x.f = 0
\* x < n and x > n for an integer n
NumLess(x, n) == x.w < n
NumGreater(x, n) == x.w > n \/ (x.w = n /\ x.f > 0)

----------------------------------------------------------------------------
(* The radix converter *)

Chars36 == Digits \o Lower

\* this.chars: the 36 characters, and the upper-case letters after them when
\* the base is 62; the instance is a record of its other fields
chars(u) == Chars36 \o (IF u.base = 62 THEN Upper ELSE << >>)

\* what a call yields: a value, or a thrown Error; NaN is a value
Value(v) == [threw |-> FALSE, nan |-> FALSE, val |-> v, msg |-> ""]
NaN == [threw |-> FALSE, nan |-> TRUE, val |-> 0, msg |-> ""]
Throw(m) == [threw |-> TRUE, nan |-> FALSE, val |-> 0, msg |-> m]

RECURSIVE Digits36(_)
Digits36(n) ==
    IF n < 36 THEN <<Chars36[n + 1]>>
    ELSE Append(Digits36(n \div 36), Chars36[(n % 36) + 1])

\* Number.prototype.toString(36) of an integer
NumberToString36(num) ==
    IF num < 0 THEN <<"-">> \o Digits36(0 - num) ELSE Digits36(num)

\* the value of a character as a digit of radix 36 for parseInt: letters count
\* in either case; -1 for anything else
DigitValue36(c) ==
    IF c \in Range(Chars36) THEN IndexOf(Chars36, c)
    ELSE IF c \in Range(Upper) THEN 10 + IndexOf(Upper, c)
    ELSE -1

RECURSIVE ParseDigits36(_, _, _)
\* the number of the longest run of radix-36 digits at the start of str, -1
\* when str starts with none
ParseDigits36(str, i, acc) ==
    IF i > Len(str) \/ DigitValue36(str[i]) = -1
    THEN (IF i = 1 THEN -1 ELSE acc)
    ELSE ParseDigits36(str, i + 1, acc * 36 + DigitValue36(str[i]))

\* parseInt(str, 36): an optional sign, then the longest run of digits; NaN
\* when there is no digit
ParseInt36(str) ==
    LET neg == Len(str) > 0 /\ str[1] = "-"
        body == IF neg THEN Tail(str) ELSE str
        n == ParseDigits36(body, 1, 0)
    IN IF n = -1 THEN NaN ELSE Value(IF neg THEN 0 - n ELSE n)

RECURSIVE toBaseStringLoop(_, _, _, _)
toBaseStringLoop(alphabet, n, base, out) ==
    IF n > 0
    THEN toBaseStringLoop(alphabet, n \div base, base, <<alphabet[(n % base) + 1]>> \o out)
    ELSE out

RECURSIVE toBaseStringAppending(_, _, _, _)
toBaseStringAppending(alphabet, n, base, out) ==
    IF n > 0
    THEN toBaseStringAppending(alphabet, n \div base, base, Append(out, alphabet[(n % base) + 1]))
    ELSE out

\* a toBaseString that appends each digit instead of prepending it
toBaseStringReversed(u, num, base) ==
    IF num = 0 THEN <<"0">> ELSE toBaseStringAppending(chars(u), num, base, << >>)

toBaseString(u, num, base) ==
    IF base = 36 THEN NumberToString36(num)
    ELSE IF num = 0 THEN <<"0">>
    ELSE toBaseStringLoop(chars(u), num, base, << >>)

InvalidCharacter == "Invalid character for base"

RECURSIVE fromBaseStringLoop(_, _, _, _, _)
fromBaseStringLoop(alphabet, str, base, i, out) ==
    IF i > Len(str) THEN Value(out)
    ELSE IF IndexOf(alphabet, str[i]) = -1 THEN Throw(InvalidCharacter)
    ELSE fromBaseStringLoop(alphabet, str, base, i + 1, out * base + IndexOf(alphabet, str[i]))

fromBaseString(u, str, base) ==
    IF base = 36 THEN ParseInt36(str)
    ELSE fromBaseStringLoop(chars(u), str, base, 1, 0)

----------------------------------------------------------------------------
(* The constructor *)

InvalidPrecision == "Precision must be \"ms\" if specified"
InvalidBase == "Base must be either 36 or 62"
InvalidLength == "Length must be a non-negative integer between 0 and 20"
InvalidCount == "Count must be a positive integer greater than 1"
NoError == ""

DefaultLength == 4
MaxLength == 20

\* no instance: what the caller holds before construction and after a
\* constructor that threw
NoGen == [prefix |-> << >>, base |-> 0, length |-> 0, precision |-> << >>]

\* a || b for an optional value: b when a is undefined or falsy
OrElse(a, falsy, b) == IF a = Undefined \/ a[1] = falsy THEN b ELSE a[1]

\* new Uzid(options): the instance, or the Error thrown.  The checks come in
\* the order of the code: precision, base, length.  options.precision && ...
\* lets a falsy precision, the empty string, through.
Uzid(options) ==
    LET prefix == OrElse(options.prefix, << >>, << >>)
        base == OrElse(options.base, 0, 36)
        length == IF options.length = Undefined THEN Num(DefaultLength) ELSE options.length[1]
    IN IF options.precision # Undefined /\ options.precision[1] # ""
            /\ options.precision[1] # "ms"
       THEN Throw(InvalidPrecision)
       ELSE IF base # 36 /\ base # 62
       THEN Throw(InvalidBase)
       ELSE IF length.t # "number" \/ ~NumberIsInteger(length)
                 \/ NumLess(length, 0) \/ NumGreater(length, MaxLength)
       THEN Throw(InvalidLength)
       ELSE Value([prefix |-> prefix, base |-> base, length |-> length.w,
                   precision |-> options.precision])

----------------------------------------------------------------------------
(* The identifier builder and the validator *)

Ms == <<"ms">>

\* this.precision === "ms" ? 1 : 1000
Divisor(u) == IF u.precision = Ms THEN 1 ELSE 1000

\* one pass of the loop of random(): the character Math.random() selects
RandomChar(u, r) == chars(u)[((r[1] * Len(chars(u))) \div r[2]) + 1]

RECURSIVE randomLoopOffByOne(_, _, _)
\* a loop with i <= this.length for its test: one pass too many
randomLoopOffByOne(u, i, s) ==
    IF i <= u.length
    THEN UNION {randomLoopOffByOne(u, i + 1, Append(s, RandomChar(u, r))) : r \in MathRandom}
    ELSE {s}

RECURSIVE randomLoop(_, _, _)
randomLoop(u, i, s) ==
    IF i < u.length
    THEN UNION {randomLoop(u, i + 1, Append(s, RandomChar(u, r))) : r \in MathRandom}
    ELSE {s}

\* random(): the strings it can return
random(u) == randomLoop(u, 0, << >>)

\* a single() that leaves the timestamp out of the identifier
singleWithoutTimestamp(u, t, suffix) == u.prefix \o suffix

\* single(), at clock value t and with suffix the string random() returned
single(u, t, suffix) ==
    LET ts == t \div Divisor(u)
    IN u.prefix \o toBaseString(u, ts, u.base) \o suffix

\* !isNaN(new Date(n * mult).getTime()): a Date holds a time value of at most
\* 8.64e15 = 8640000 * 10^9 milliseconds in magnitude, and NaN otherwise
DateIsValid(r, mult) ==
    IF r.nan THEN FALSE
    ELSE LET a == IF r.val < 0 THEN 0 - r.val ELSE r.val
             unit == 1000000000 \div mult
         IN a \div unit < 8640000 \/ (a \div unit = 8640000 /\ a % unit = 0)

\* the try block of verify(): a thrown Error is caught and gives false
verifyTimestamp(u, timestampPart) ==
    LET r == fromBaseString(u, timestampPart, u.base)
    IN IF r.threw THEN Value(FALSE) ELSE Value(DateIsValid(r, Divisor(u)))

\* a first check that only rejects the empty string
rejectedAtEntryAnyPrefix(u, id) == Len(id) = 0

\* the first check of verify(): the empty string, or one without the prefix
\* (every id of the model is a string, so typeof id is "string")
rejectedAtEntry(u, id) == Len(id) = 0 \/ ~StartsWith(id, u.prefix)

\* the for loop of verify(): some character is not in this.chars
hasForeignChar(u, withoutPrefix) ==
    \E i \in 1..Len(withoutPrefix) : withoutPrefix[i] \notin Range(chars(u))

\* a randomPart without the case for length 0: slice(-0) is the whole string
randomPartSliced(u, withoutPrefix) == SliceFrom(withoutPrefix, 0 - u.length)

randomPart(u, withoutPrefix) ==
    IF u.length = 0 THEN << >> ELSE SliceFrom(withoutPrefix, 0 - u.length)

\* a timestampPart that keeps the random part at its end
timestampPartWhole(u, withoutPrefix) == withoutPrefix

timestampPart(u, withoutPrefix) ==
    IF u.length = 0 THEN withoutPrefix ELSE Slice(withoutPrefix, 0, 0 - u.length)

\* a verify() that throws on a character outside the alphabet, as
\* fromBaseString() does, instead of returning false
verifyThrowing(u, id) ==
    IF rejectedAtEntry(u, id) THEN Value(FALSE)
    ELSE LET withoutPrefix == SliceFrom(id, Len(u.prefix))
         IN IF Len(withoutPrefix) = 0 THEN Value(FALSE)
            ELSE IF hasForeignChar(u, withoutPrefix) THEN Throw(InvalidCharacter)
            ELSE IF Len(randomPart(u, withoutPrefix)) # u.length THEN Value(FALSE)
            ELSE verifyTimestamp(u, timestampPart(u, withoutPrefix))

verify(u, id) ==
    IF rejectedAtEntry(u, id) THEN Value(FALSE)
    ELSE LET withoutPrefix == SliceFrom(id, Len(u.prefix))
         IN IF Len(withoutPrefix) = 0 THEN Value(FALSE)
            ELSE IF hasForeignChar(u, withoutPrefix) THEN Value(FALSE)
            ELSE IF Len(randomPart(u, withoutPrefix)) # u.length THEN Value(FALSE)
            ELSE verifyTimestamp(u, timestampPart(u, withoutPrefix))

----------------------------------------------------------------------------
(* The batch generator *)

\* an add that keeps duplicates, as Array.prototype.push would
SetAddAlways(s, x) == Append(s, x)

\* Set.prototype.add: a Set keeps its members in insertion order
SetAdd(s, x) == IF x \in Range(s) THEN s ELSE Append(s, x)

\* Array.from(ids) without the sort: insertion order
ArrayUnsorted(s) == s

\* Array.from(ids).sort(): ascending by code units, every element kept, equal
\* elements in their former order; position i takes the element that has
\* i - 1 elements before it
ArraySort(s) ==
    LET before(j, k) == StrLess(s[j], s[k]) \/ (s[j] = s[k] /\ j < k)
        rank(k) == Cardinality({j \in 1..Len(s) : before(j, k)}) + 1
    IN [i \in 1..Len(s) |-> s[CHOOSE k \in 1..Len(s) : rank(k) = i]]

\* a check that lets a count of 1 through
CountRejectedBelowOne(count) == ~NumberIsInteger(count) \/ NumLess(count, 1)

\* !Number.isInteger(count) || count < 2
CountRejected(count) == ~NumberIsInteger(count) \/ NumLess(count, 2)

----------------------------------------------------------------------------
(* The inputs *)

Prefixes == {<< >>, <<"a">>, <<"a", "b">>, <<"_">>}
PrefixInputs == {Undefined} \cup {Some(p) : p \in Prefixes}
BaseInputs == {Undefined} \cup {Some(b) : b \in {0, 10, 16, 36, 62, 64}}
LengthInputs ==
    {Undefined}
        \cup {Some(Num(n)) : n \in (-1 .. MaxSuffixLen) \cup {MaxLength, MaxLength + 1}}
        \cup {Some([t |-> "number", w |-> 2, f |-> 5]), Some([t |-> "string", w |-> 2, f |-> 0])}
PrecisionInputs == {Undefined, Some("ms"), Some("s"), Some("hour"), Some("")}

\* the options a caller may hand to the constructor
UzidOptions ==
    [prefix : PrefixInputs, base : BaseInputs, length : LengthInputs,
     precision : PrecisionInputs]

\* the instances with a suffix short enough for the model to generate
Generators(prefixes) ==
    {Uzid([prefix |-> Some(p), base |-> Some(b), length |-> Some(Num(n)),
           precision |-> pr]).val :
        p \in prefixes, b \in {36, 62}, n \in 0..MaxSuffixLen, pr \in {Undefined, Some("ms")}}

\* the characters of the candidates: base-36 digits, a base-62 digit, and a
\* character of neither alphabet
CandidateChars == {"a", "b", "Z", "!"}

RECURSIVE Strings(_, _)
\* the strings over S of at most n characters
Strings(S, n) ==
    IF n = 0 THEN {<< >>}
    ELSE LET shorter == Strings(S, n - 1)
         IN shorter \cup {Append(s, c) : s \in shorter, c \in S}

Candidates == Strings(CandidateChars, MaxCandLen)

CountInputs ==
    {Num(n) : n \in -1..MaxCount}
        \cup {[t |-> "number", w |-> 2, f |-> 5], [t |-> "string", w |-> 3, f |-> 0]}

\* new Uzid(), and the options field of a call that takes none
NoOptions ==
    [prefix |-> Undefined, base |-> Undefined, length |-> Undefined, precision |-> Undefined]

\* no call yet; a call is its name, with the options or the count it was given
NoCall == [op |-> "", options |-> NoOptions, count |-> Num(0)]
Called(op) == [NoCall EXCEPT !.op = op]

\* nothing returned, and the return of a string, a boolean, an array
NoRet == [kind |-> "none", str |-> << >>, bool |-> FALSE, array |-> << >>]
RetString(s) == [NoRet EXCEPT !.kind = "string", !.str = s]
RetBoolean(b) == [NoRet EXCEPT !.kind = "boolean", !.bool = b]
RetArray(a) == [NoRet EXCEPT !.kind = "array", !.array = a]
\* the caller holds no string; a string from elsewhere is held with by = NoGen
NoId == [id |-> << >>, by |-> NoGen, ts |-> -1]
NoConv == [stage |-> "", num |-> 0, str |-> << >>, back |-> NaN]

----------------------------------------------------------------------------
(* The caller's program: one instance, its identifiers and their checks *)

Init ==
    /\ g = NoGen
    /\ other = NoGen
    /\ now \in ClockValues
    /\ err = NoError
    /\ call = NoCall
    /\ ret = NoRet
    /\ held = NoId
    /\ ids = << >>
    /\ pc = "idle"
    /\ called = FALSE
    /\ conv = NoConv

\* g = new Uzid(options), the first statement of the program: an Error it
\* throws leaves the caller without an instance
Construct ==
    /\ call = NoCall
    /\ g = NoGen
    /\ \E options \in UzidOptions :
          LET r == Uzid(options)
          IN /\ call' = [Called("new") EXCEPT !.options = options]
             /\ g' = IF r.threw THEN NoGen ELSE r.val
             /\ err' = IF r.threw THEN r.msg ELSE NoError
    /\ ret' = NoRet
    /\ UNCHANGED <<other, now, held, ids, pc, called, conv>>

\* the clock advances
Tick ==
    /\ \E t \in ClockValues : t > now /\ now' = t
    /\ UNCHANGED <<g, other, err, call, ret, held, ids, pc, called, conv>>

\* id = g.generate(), which is g.single(); the caller keeps id
Generate ==
    /\ g # NoGen
    /\ pc = "idle"
    /\ g.length <= MaxSuffixLen
    /\ \E suffix \in random(g) :
          LET id == single(g, now, suffix)
          IN /\ ret' = RetString(id)
             /\ held' = [id |-> id, by |-> g, ts |-> now \div Divisor(g)]
    /\ call' = Called("generate")
    /\ err' = NoError
    /\ UNCHANGED <<g, other, now, ids, pc, called, conv>>

\* g.random()
Random ==
    /\ g # NoGen
    /\ pc = "idle"
    /\ g.length <= MaxSuffixLen
    /\ \E s \in random(g) : ret' = RetString(s)
    /\ call' = Called("random")
    /\ err' = NoError
    /\ held' = NoId
    /\ UNCHANGED <<g, other, now, ids, pc, called, conv>>

\* what a call u.verify(id) leaves behind
VerifyCall(u, id) ==
    LET r == verify(u, id)
    IN /\ call' = Called("verify")
       /\ ret' = IF r.threw THEN NoRet ELSE RetBoolean(r.val)
       /\ err' = IF r.threw THEN r.msg ELSE NoError

\* g.verify(held.id): the caller checks the string it holds
VerifyHeld ==
    /\ g # NoGen
    /\ pc = "idle"
    /\ held # NoId
    /\ VerifyCall(g, held.id)
    /\ UNCHANGED <<g, other, now, held, ids, pc, called, conv>>

Next ==
    \/ Construct
    \/ Tick
    \/ Generate
    \/ Random
    \/ VerifyHeld

Spec == Init /\ [][Next]_vars

----------------------------------------------------------------------------
(* verify() on strings from elsewhere *)

InitVerify ==
    /\ g \in Generators(Prefixes)
    /\ other = NoGen
    /\ now \in ClockValues
    /\ err = NoError
    /\ call = NoCall
    /\ ret = NoRet
    /\ held \in {[id |-> c, by |-> NoGen, ts |-> 0] : c \in Candidates}
    /\ ids = << >>
    /\ pc = "idle"
    /\ called = FALSE
    /\ conv = NoConv

NextVerify == VerifyHeld

SpecVerify == InitVerify /\ [][NextVerify]_vars

----------------------------------------------------------------------------
(* Two instances: one generates, the other verifies *)

InitPair ==
    /\ g \in Generators(Prefixes \ {<< >>})
    /\ other \in Generators(Prefixes \ {<< >>})
    /\ now \in ClockValues
    /\ err = NoError
    /\ call = NoCall
    /\ ret = NoRet
    /\ held = NoId
    /\ ids = << >>
    /\ pc = "idle"
    /\ called = FALSE
    /\ conv = NoConv

\* other.verify(held.id)
VerifyByOther ==
    /\ other # NoGen
    /\ pc = "idle"
    /\ held # NoId
    /\ VerifyCall(other, held.id)
    /\ UNCHANGED <<g, other, now, held, ids, pc, called, conv>>

NextPair ==
    \/ Tick
    \/ Generate
    \/ VerifyByOther

SpecPair == InitPair /\ [][NextPair]_vars

----------------------------------------------------------------------------
(* Batch generation: multiple(count) and generate(count) *)

InitBatch ==
    /\ g \in Generators({<< >>, <<"a">>})
    /\ other = NoGen
    /\ now \in ClockValues
    /\ err = NoError
    /\ call = NoCall
    /\ ret = NoRet
    /\ held = NoId
    /\ ids = << >>
    /\ pc = "idle"
    /\ called = FALSE
    /\ conv = NoConv

\* the entry of multiple(count): the count is checked, then the Set is made
MultipleEntry(op, count) ==
    /\ call' = [Called(op) EXCEPT !.count = count]
    /\ ret' = NoRet
    /\ called' = FALSE
    /\ ids' = << >>
    /\ IF CountRejected(count)
       THEN err' = InvalidCount /\ pc' = "idle"
       ELSE err' = NoError /\ pc' = "loop"
    /\ UNCHANGED <<g, other, now, held, conv>>

\* g.multiple(count)
Multiple ==
    /\ g # NoGen
    /\ pc = "idle"
    /\ \E count \in CountInputs : MultipleEntry("multiple", count)

\* g.generate(count) with a count: it is multiple(count)
GenerateCount ==
    /\ g # NoGen
    /\ pc = "idle"
    /\ \E count \in CountInputs : MultipleEntry("generate", count)

\* one pass of the while loop: ids.add(this.single())
MultipleStep ==
    /\ pc = "loop"
    /\ Len(ids) < call.count.w
    /\ \E suffix \in random(g) : ids' = SetAdd(ids, single(g, now, suffix))
    /\ called' = TRUE
    /\ UNCHANGED <<g, other, now, err, call, ret, held, pc, conv>>

\* the loop ends: return Array.from(ids).sort()
MultipleReturn ==
    /\ pc = "loop"
    /\ ~(Len(ids) < call.count.w)
    /\ ret' = RetArray(ArraySort(ids))
    /\ pc' = "done"
    /\ UNCHANGED <<g, other, now, err, call, held, ids, called, conv>>

NextBatch ==
    \/ Tick
    \/ Multiple
    \/ GenerateCount
    \/ MultipleStep
    \/ MultipleReturn

SpecBatch == InitBatch /\ [][NextBatch]_vars

----------------------------------------------------------------------------
(* Batch generation while the clock runs on *)

InitBatchLive ==
    /\ g \in Generators({<<"a">>})
    /\ other = NoGen
    /\ now = 0
    /\ err = NoError
    /\ call = NoCall
    /\ ret = NoRet
    /\ held = NoId
    /\ ids = << >>
    /\ pc = "idle"
    /\ called = FALSE
    /\ conv = NoConv

\* Date.now() has moved on to the next timestamp value of the instance while
\* the loop runs.  The loop sees the clock only in single(), so a value it
\* never read changes nothing: the clock of the model moves on from a value
\* the loop has read, which keeps it within MaxCount timestamp values.
TickLoop ==
    /\ pc = "loop"
    /\ now \div Divisor(g) < MaxCount
    /\ \E suffix \in random(g) : single(g, now, suffix) \in Range(ids)
    /\ now' = now + Divisor(g)
    /\ UNCHANGED <<g, other, err, call, ret, held, ids, pc, called, conv>>

NextBatchLive ==
    \/ Multiple
    \/ MultipleStep
    \/ MultipleReturn
    \/ TickLoop

\* the loop keeps taking steps and the clock keeps advancing
SpecBatchLive ==
    /\ InitBatchLive
    /\ [][NextBatchLive]_vars
    /\ WF_vars(MultipleStep)
    /\ WF_vars(MultipleReturn)
    /\ WF_vars(TickLoop)

----------------------------------------------------------------------------
(* The radix converter on its own *)

InitCodec ==
    /\ g \in {Uzid([prefix |-> Undefined, base |-> Some(b), length |-> Undefined,
                    precision |-> Undefined]).val : b \in {36, 62}}
    /\ other = NoGen
    /\ now = 0
    /\ err = NoError
    /\ call = NoCall
    /\ ret = NoRet
    /\ held = NoId
    /\ ids = << >>
    /\ pc = "idle"
    /\ called = FALSE
    /\ conv \in {[stage |-> "input", num |-> v, str |-> << >>, back |-> NaN] : v \in 0..MaxNum}

\* str = this.toBaseString(num, this.base)
Encode ==
    /\ conv.stage = "input"
    /\ conv' = [conv EXCEPT !.stage = "encoded", !.str = toBaseString(g, conv.num, g.base)]
    /\ UNCHANGED <<g, other, now, err, call, ret, held, ids, pc, called>>

\* back = this.fromBaseString(str, this.base)
Decode ==
    /\ conv.stage = "encoded"
    /\ conv' = [conv EXCEPT !.stage = "decoded", !.back = fromBaseString(g, conv.str, g.base)]
    /\ UNCHANGED <<g, other, now, err, call, ret, held, ids, pc, called>>

NextCodec ==
    \/ Encode
    \/ Decode

SpecCodec == InitCodec /\ [][NextCodec]_vars

----------------------------------------------------------------------------
(* The claims *)

\* C1: decoding the string that encoding produced gives the number back, in
\* base 36 and in base 62
C1_RoundTrip ==
    conv.stage = "decoded" => conv.back = Value(conv.num)

\* a three-digit number of base 62 has made the round trip
C1_Witness ==
    /\ conv.stage = "decoded"
    /\ g.base = 62
    /\ conv.num = 3844
    /\ conv.str = <<"1", "0", "0">>
    /\ conv.back = Value(3844)

\* C2: the instance that generated an identifier verifies it
C2_SelfVerification ==
    (call.op = "verify" /\ g # NoGen /\ held.by = g) => ret = RetBoolean(TRUE)

\* an instance with an empty suffix and base 62 has verified its own identifier
C2_Witness ==
    /\ call.op = "verify"
    /\ held.by = g
    /\ g.base = 62
    /\ g.length = 0
    /\ g.prefix # << >>
    /\ ret = RetBoolean(TRUE)

\* C3: multiple(count) returns exactly count identifiers, no two of them equal
C3_BatchDistinct ==
    pc = "done" =>
        /\ Len(ret.array) = call.count.w
        /\ \A i, j \in 1..Len(ret.array) : i # j => ret.array[i] # ret.array[j]

\* a batch of three has been returned by an instance without a suffix, which
\* collides with itself until the clock moves
C3_Witness ==
    /\ pc = "done"
    /\ call.count.w = 3
    /\ g.length = 0
    /\ Len(ret.array) = 3

\* C4: the identifiers multiple(count) returns are in ascending order of
\* their code units
C4_BatchOrder ==
    pc = "done" =>
        \A i \in 1..(Len(ret.array) - 1) : StrLeq(ret.array[i], ret.array[i + 1])

\* a batch has been returned in another order than it was generated in
C4_Witness ==
    /\ pc = "done"
    /\ ret.array # ids
    /\ Len(ret.array) = 3

\* C5: with precision "ms", an identifier generated at a later timestamp whose
\* encoding has as many digits is greater than the earlier identifier
C5_SortableOverTime ==
    [][(/\ call'.op = "generate"
        /\ held # NoId
        /\ held.by = g
        /\ g.precision = Ms
        /\ held.ts < held'.ts
        /\ Len(toBaseString(g, held.ts, g.base)) = Len(toBaseString(g, held'.ts, g.base)))
       => StrLess(held.id, held'.id)]_vars

\* C6: an instance with another non-empty prefix rejects the identifier
C6_CrossPrefix ==
    (/\ call.op = "verify"
     /\ held.by = g
     /\ g.prefix # << >>
     /\ other.prefix # << >>
     /\ g.prefix # other.prefix)
    => ret = RetBoolean(FALSE)

\* C6, amended: an instance with another non-empty prefix rejects the
\* identifier when neither prefix is the start of the other
C6_CrossPrefixDisjoint ==
    (/\ call.op = "verify"
     /\ held.by = g
     /\ g.prefix # << >>
     /\ other.prefix # << >>
     /\ ~StartsWith(g.prefix, other.prefix)
     /\ ~StartsWith(other.prefix, g.prefix))
    => ret = RetBoolean(FALSE)

\* the instance with prefix "_" has rejected an identifier of the instance
\* with prefix "a"
C6_Witness ==
    /\ call.op = "verify"
    /\ held.by = g
    /\ g.prefix = <<"a">>
    /\ other.prefix = <<"_">>
    /\ ret = RetBoolean(FALSE)

\* C7: verify() returns true or false for every string, throws nothing and
\* leaves the instance as it was
C7_VerifyTotal ==
    [][call'.op = "verify" =>
        /\ ret' \in {RetBoolean(TRUE), RetBoolean(FALSE)}
        /\ err' = NoError
        /\ g' = g]_vars

\* a base-62 instance has returned false for a string that starts with its
\* prefix and holds a character of no alphabet
C7_Witness ==
    /\ call.op = "verify"
    /\ g.base = 62
    /\ g.prefix = <<"a">>
    /\ held.id = <<"a", "Z", "!">>
    /\ ret = RetBoolean(FALSE)

\* C8: multiple(count) and generate(count) throw InvalidCount exactly when
\* count is not an integer or is below 2, and then build and return nothing
C8_CountValidation ==
    call.op \in {"multiple", "generate"} =>
        LET count == call.count
            bad == count.t # "number" \/ count.f # 0 \/ count.w < 2
        IN /\ bad <=> err = InvalidCount
           /\ bad => (~called /\ ids = << >> /\ ret = NoRet /\ pc = "idle")

\* generate(2.5) has thrown InvalidCount
C8_Witness ==
    /\ call.op = "generate"
    /\ call.count = [t |-> "number", w |-> 2, f |-> 5]
    /\ err = InvalidCount
    /\ ~called

\* the length option is absent or an integer from 0 to 20
LengthAccepted(o) ==
    o.length = Undefined
        \/ (o.length[1].t = "number" /\ o.length[1].f = 0
            /\ o.length[1].w >= 0 /\ o.length[1].w <= 20)

\* the precision option is absent or "ms"
PrecisionAccepted(o) == o.precision \in {Undefined, Some("ms")}

\* the base option is absent, 36 or 62
BaseAccepted(o) == o.base \in {Undefined, Some(36), Some(62)}

\* C9: a base other than 36 and 62 makes the constructor throw InvalidBase and
\* leaves no instance; base 36, base 62 and no base construct one
C9_BaseValidation ==
    call.op = "new" =>
        LET o == call.options
        IN /\ ~BaseAccepted(o) =>
                (g = NoGen /\ (PrecisionAccepted(o) => err = InvalidBase))
           /\ (BaseAccepted(o) /\ LengthAccepted(o) /\ PrecisionAccepted(o)) =>
                (g # NoGen /\ err = NoError)

\* C10: a length that is no integer from 0 to 20 makes the constructor throw
\* InvalidLength, a precision other than "ms" makes it throw InvalidPrecision,
\* and every length from 0 to 20 with precision "ms" or none constructs
C10_LengthPrecisionValidation ==
    call.op = "new" =>
        LET o == call.options
        IN /\ ~LengthAccepted(o) =>
                (g = NoGen
                 /\ ((PrecisionAccepted(o) /\ BaseAccepted(o)) => err = InvalidLength))
           /\ ~PrecisionAccepted(o) => (g = NoGen /\ err = InvalidPrecision)
           /\ (LengthAccepted(o) /\ PrecisionAccepted(o) /\ BaseAccepted(o)) =>
                (g # NoGen /\ err = NoError)

\* the alphabet a base stands for: 0-9a-z, and A-Z after them for base 62
Alphabet(base) == IF base = 62 THEN Digits \o Lower \o Upper ELSE Digits \o Lower

\* C11: random() returns exactly `length` characters, all of the alphabet of
\* the base: the empty string when length is 0, and never a string that the
\* prefix or the timestamp has made longer
C11_SuffixShape ==
    call.op = "random" =>
        /\ ret.kind = "string"
        /\ Len(ret.str) = g.length
        /\ \A i \in 1..Len(ret.str) : ret.str[i] \in Range(Alphabet(g.base))
        /\ g.length = 0 => ret.str = << >>

\* a base-62 instance with a prefix has returned the last character of its
\* alphabet as a suffix of one character
C11_Witness ==
    /\ call.op = "random"
    /\ g.base = 62
    /\ g.prefix = <<"a", "b">>
    /\ g.length = 1
    /\ ret.str = <<"Z">>

RECURSIVE Accumulate(_, _, _, _)
\* the accumulate rule over a string of alphabet characters:
\* result = result * base + digitValue, from 0
Accumulate(alphabet, str, i, result) ==
    IF i > Len(str) THEN result
    ELSE Accumulate(alphabet, str, i + 1, result * Len(alphabet) + IndexOf(alphabet, str[i]))

\* n timestamp units of mult milliseconds are a point in time: at most
\* 8640000 * 10^9 milliseconds
Representable(n, mult) ==
    LET unit == 1000000000 \div mult
    IN n \div unit < 8640000 \/ (n \div unit = 8640000 /\ n % unit = 0)

\* the verification algorithm as it is specified; emptyDecodes says whether an
\* empty timestamp part decodes, to 0
Accepts(u, id, emptyDecodes) ==
    /\ Len(id) > 0
    /\ Len(u.prefix) <= Len(id)
    /\ \A i \in 1..Len(u.prefix) : id[i] = u.prefix[i]
    /\ LET remainder == [i \in 1..(Len(id) - Len(u.prefix)) |-> id[Len(u.prefix) + i]]
       IN /\ Len(remainder) > 0
          /\ \A i \in 1..Len(remainder) : remainder[i] \in Range(Alphabet(u.base))
          /\ Len(remainder) >= u.length
          /\ LET stamp == [i \in 1..(Len(remainder) - u.length) |-> remainder[i]]
             IN /\ stamp = << >> => emptyDecodes
                /\ Representable(Accumulate(Alphabet(u.base), stamp, 1, 0),
                                 IF u.precision = Some("ms") THEN 1 ELSE 1000)

C14_TimestampRequired ==
    call.op = "verify" =>
        LET remainder == Len(held.id) - Len(g.prefix)
        IN /\ ret = RetBoolean(TRUE) => remainder > g.length
           /\ (/\ StartsWith(held.id, g.prefix)
               /\ remainder = g.length
               /\ \A i \in (Len(g.prefix) + 1)..Len(held.id) :
                      held.id[i] \in Range(Alphabet(g.base)))
              => ret = RetBoolean(FALSE)

\* C13: a call multiple(count) that has entered its loop returns in the end,
\* when the loop keeps taking steps and the clock keeps advancing, for every
\* length and for length 0 too
C13_BatchTerminates == (pc = "loop") ~> (pc = "done")

\* an instance without a suffix and with seconds precision has returned a
\* batch of three, for which the clock had to reach a third second
C13_Witness ==
    /\ pc = "done"
    /\ g.length = 0
    /\ g.precision = Undefined
    /\ call.count.w = 3
    /\ Len(ret.array) = 3
    /\ now >= 2000

====
